---- MODULE Spec2Model ----
(***************************************************************************)
(* ProjectedGradient (src/projected_gradient.py): the projected-gradient   *)
(* Wasserstein attack.  The model follows one attack object from its       *)
(* construction through its perturb calls, one action per step of perturb. *)
(*                                                                         *)
(* Images are rows of two pixels with integer masses (one unit = the pixel  *)
(* value 1.0), a batch of one image with one channel.  A coupling maps an  *)
(* entry <<i, o>> (source pixel i, window offset o) to the mass moved from *)
(* pixel i to pixel i + o.                                                 *)
(***************************************************************************)
EXTENDS Integers, Sequences, FiniteSets, TLC

\* ---------------------------------------------------------------- bounds
MaxElapsed  == 1      \* largest elapsed-time reading of one projection
MaxDualIter == 2      \* dual_max_iter of the configurations explored
MaxCalls    == 2      \* perturb calls made on one attack object

\* ------------------------------------------------------ program constants
ClipMin       == 0         \* clip_min=0.
ClipMax       == 1         \* clip_max=1.
INF           == 1000000   \* self.inf
CapacityIters == 3000      \* num_iter = 3000
ReportEvery   == 10        \* (t + 1) % 10 == 0

Pixels == {0, 1}
Images == { (0 :> 1 @@ 1 :> 0), (0 :> 1 @@ 1 :> 1) }

None == <<>>      \* an unbound local, an unset attribute, no value

Max2(a, b) == IF a >= b THEN a ELSE b
Min2(a, b) == IF a <= b THEN a ELSE b

RECURSIVE SumOver(_, _)
SumOver(f, S) ==
    IF S = {} THEN 0
    ELSE LET e == CHOOSE x \in S : TRUE IN f[e] + SumOver(f, S \ {e})

\* Python's % : the result takes the sign of the divisor.
PyMod(a, m) == IF m > 0 THEN a % m ELSE -((-a) % (-m))

\* ------------------------------------------- WassersteinAttack (base class)
\* The window of a kernel of side k, and the entries of a coupling.
Offsets(k) == LET r == (k - 1) \div 2 IN (-r)..r
Entries(k) == Pixels \X Offsets(k)
Dest(e)    == e[1] + e[2]
InBounds(e) == Dest(e) \in Pixels

\* initialize_cost: squared distance, inf for a destination outside the image.
initialize_cost(k, inf) ==
    [e \in Entries(k) |-> IF InBounds(e) THEN e[2] * e[2] ELSE inf]

\* The index maps between the source-major and the destination-major layout.
forward_index(k) ==
    [e \in Entries(k) |-> IF InBounds(e) THEN <<Dest(e), -e[2]>> ELSE e]
backward_index(k) ==
    [e \in Entries(k) |-> IF InBounds(e) THEN <<Dest(e), -e[2]>> ELSE e]

\* initialize_coupling: the identity plan, all mass stays at its source.
initialize_coupling(x, k) ==
    [e \in Entries(k) |-> IF e[2] = 0 THEN x[e[1]] ELSE 0]

\* coupling2adversarial: scatter-add every entry into its destination pixel.
coupling2adversarial(p, k) ==
    [j \in Pixels |-> SumOver(p, {e \in Entries(k) : Dest(e) = j})]

\* X.sum(dim=(1, 2, 3)): the total mass of the image.
normalization(x) == SumOver(x, Pixels)

clamp(img, lo, hi) == [j \in Pixels |-> Max2(lo, Min2(hi, img[j]))]

\* The three constraint checks.  Their tolerances (1e-6 .. 1e-3) are below
\* one unit of mass, so each check is exact on integer masses.
check_nonnegativity(p, k) == \A e \in Entries(k) : p[e] >= 0
check_marginal_constraint(p, x, k) ==
    \A i \in Pixels : SumOver(p, {e \in Entries(k) : e[1] = i}) = x[i]
check_transport_cost(p, x, k, c, e0) ==
    SumOver([e \in Entries(k) |-> p[e] * c[e]], Entries(k)) <= e0 * normalization(x)
Feasible(p, x, k, c, e0) ==
    /\ check_nonnegativity(p, k)
    /\ check_marginal_constraint(p, x, k)
    /\ check_transport_cost(p, x, k, c, e0)

\* check_hypercube with a tolerance: no decoded pixel leaves the pixel range.
check_hypercube(img, lo, hi) == \A j \in Pixels : img[j] >= lo /\ img[j] <= hi

\* __init__ of the base class: a malformed configuration is rejected.
WassersteinAttackInit(c) == c.eps >= 0 /\ c.kernel_size > 0

\* ------------------------------------------------ projection (external)
\* dual_projection and dual_capacity_constrained_projection are called, not
\* defined, by this file.  A call returns a coupling that meets the three
\* constraints, or (the inner solver ran out of iterations) a best-effort
\* coupling that misses one of them.
Shift(p, e, d) == [p EXCEPT ![e] = p[e] + d]
FeasibleCouplings(x, k, e0) ==
    LET all == {p : p \in [Entries(k) -> 0..ClipMax]}
    IN  {p \in all : Feasible(p, x, k, initialize_cost(k, INF), e0)}
BestEffort(x, k, e0) ==
    LET good == FeasibleCouplings(x, k, e0)
    IN  {Shift(p, e, d) : p \in good,
                          e \in {e1 \in Entries(k) : e1[1] = 0}, d \in {-1, 1}}
        \ good

\* The gradient of the loss with respect to the image, in units of its
\* largest component: every component in [-1, 1].
ImageGradients == [Pixels -> {-1, 0, 1}]

\* ------------------------------------------------------- configurations
Eps      == {-1, 0, 1}
Kernels  == {-1, 0, 1, 3}
Mods     == {-1, 0, 1, 2}
ShortIters == {0, 1, 2}      \* nb_iter below the report period
ShortConfigs ==
    [eps : Eps, kernel_size : Kernels, lr : {1}, nb_iter : ShortIters,
     dual_max_iter : {MaxDualIter}, clip_min : {ClipMin}, clip_max : {ClipMax},
     clipping : BOOLEAN, postprocess : BOOLEAN, verbose : {FALSE},
     capacity_proj_mod : Mods]
LongConfigs ==
    [eps : {0}, kernel_size : {1}, lr : {1}, nb_iter : {ReportEvery},
     dual_max_iter : {1}, clip_min : {ClipMin}, clip_max : {ClipMax},
     clipping : {FALSE}, postprocess : {FALSE}, verbose : BOOLEAN,
     capacity_proj_mod : {-1, 1, 2}]
Configs == ShortConfigs \cup LongConfigs

\* Constant tables of the projection's possible results.
LiveKeys == {<<x, k, e0>> \in Images \X Kernels \X Eps : k > 0 /\ e0 >= 0}
FeasibleTable ==
    [key \in LiveKeys |-> FeasibleCouplings(key[1], key[2], key[3])] @@ <<>>
BestEffortTable ==
    [key \in LiveKeys |-> BestEffort(key[1], key[2], key[3])] @@ <<>>

\* ------------------------------------------- ProjectedGradient.__init__
\* super().__init__ comes first and rejects a malformed configuration; the
\* remaining lines only store attributes.
ProjectedGradientInit_Unchecked(c) == TRUE
ProjectedGradientInit(c) == WassersteinAttackInit(c)

\* ------------------------------------------------ autograd (torch)
\* The autograd attributes of a tensor: whether it requires a gradient,
\* whether it is a leaf of the graph, and its accumulated .grad.
Leaf(req) == [requires_grad |-> req, is_leaf |-> TRUE, grad |-> None]

\* The result of an operation: on the graph when gradients are recorded and
\* the operand requires one, a plain tensor under torch.no_grad().
ResultOf(ad, nograd) ==
    IF ~nograd /\ ad.requires_grad
    THEN [requires_grad |-> TRUE, is_leaf |-> FALSE, grad |-> None]
    ELSE Leaf(FALSE)

\* loss.backward(): the gradient is added to the .grad of the leaf.
Backward(ad, g) ==
    [ad EXCEPT !.grad = IF ad.grad = None THEN g
                        ELSE [e \in DOMAIN g |-> ad.grad[e] + g[e]]]

\* The gradient of the loss with respect to the coupling: an entry has the
\* gradient of its destination pixel.
EntryGradient(g, k) == [e \in Entries(k) |-> IF InBounds(e) THEN g[Dest(e)] ELSE 0]

\* pi.grad / (tensor_norm(pi.grad, p='inf') + 1e-8), in whole steps.
Abs(a) == IF a >= 0 THEN a ELSE -a
NormaliseInf(v, k) ==
    LET m == CHOOSE a \in {Abs(v[e]) : e \in Entries(k)} :
                 \A e \in Entries(k) : Abs(v[e]) <= a
    IN  IF m = 0 THEN v
        ELSE [e \in Entries(k) |-> IF v[e] >= 0 THEN v[e] \div m ELSE -((-v[e]) \div m)]

\* ------------------------------------------------ tensor storage (torch)
\* The memory a tensor's values live in: its own, or that of the image X.
Storages == {"own", "X"}

\* A coupling that is a view of the tensor it was made from.
clone_View(storage) == storage

\* .clone(): the copy has memory of its own.
clone(storage) == "own"

\* An in-place write to the coupling p reaches the image when the two share
\* memory: pixel i holds the mass that stays at i.
WriteThrough(x, p, storage) ==
    IF storage = "X" THEN [i \in Pixels |-> p[<<i, 0>>]] ELSE x

\* A coupling that is handed on as it is, without a fresh leaf.
CloneDetachRequiresGrad_Skipped(ad) == ad

\* .clone().detach().requires_grad_(True): a fresh leaf without a gradient.
CloneDetachRequiresGrad(ad) == Leaf(TRUE)

\* ---------------------------------------- ProjectedGradient.perturb: steps
\* A loop that makes one iteration too many, and one that stops one short.
LoopContinues_OneMore(tt, n) == tt <= n
LoopContinues_OneShort(tt, n) == tt < n - 1

\* for t in range(self.nb_iter)
LoopContinues(tt, n) == tt < n

\* A model input that is clamped only when the clipping option is set.
ModelInput_ClipOption(p, c) ==
    IF c.clipping
    THEN clamp(coupling2adversarial(p, c.kernel_size), c.clip_min, c.clip_max)
    ELSE coupling2adversarial(p, c.kernel_size)

\* The image given to self.predict: the decode, always clamped.
ModelInput(p, c) ==
    clamp(coupling2adversarial(p, c.kernel_size), c.clip_min, c.clip_max)

\* pi += self.lr * pi.grad, g the gradient normalised by its infinity norm.
GradientAscent(p, g, c) ==
    [e \in Entries(c.kernel_size) |-> p[e] + c.lr * g[e]]

\* if capacity_proj_mod == -1 / elif (t + 1) % capacity_proj_mod == 0
SelectProjection(mod, tt) ==
    IF mod = -1 THEN "dual"
    ELSE IF mod = 0 THEN "ZeroDivisionError"
    ELSE IF PyMod(tt + 1, mod) = 0 THEN "capacity"
    ELSE "none"

\* A projection whose result is dropped (the call taken to work in place).
CouplingAfterProject_Dropped(kind, ret, old) == old

\* pi = ... : the coupling after the projection branch.
CouplingAfterProject(kind, ret, old) == IF kind = "none" THEN old ELSE ret

\* A num_iter that is bound to zero when no branch is taken.
NumIterAfterProject_Defaulted(kind, n, old) ==
    IF kind = "dual" THEN <<n>>
    ELSE IF kind = "capacity" THEN <<CapacityIters>>
    ELSE <<0>>

\* num_iter after the projection branch; <<>> while the local is unbound.
NumIterAfterProject(kind, n, old) ==
    IF kind = "dual" THEN <<n>>
    ELSE IF kind = "capacity" THEN <<CapacityIters>>
    ELSE old

\* if self.verbose and (t + 1) % 10 == 0
ReportDue(c, tt) == c.verbose /\ (tt + 1) % ReportEvery = 0

\* adv_example = self.coupling2adversarial(pi, X) of the final block: the
\* decode, not clamped.
FinalDecode(p, c) == coupling2adversarial(p, c.kernel_size)

\* A post-processing pass tied to the capacity mode.
PostprocessEnabled_WithCapacity(c) == c.postprocess = TRUE /\ c.capacity_proj_mod # -1

\* if self.postprocess is True
PostprocessEnabled(c) == c.postprocess = TRUE

\* A return that clamps whatever the clipping option says.
ReturnValue_AlwaysClamped(adv, c) == clamp(adv, c.clip_min, c.clip_max)

\* if self.clipping: return adv_example.clamp(...) else: return adv_example
ReturnValue(adv, c) == IF c.clipping THEN clamp(adv, c.clip_min, c.clip_max) ELSE adv

\* ----------------------------------------------------------------- state
VARIABLES
    pc,            \* position: "new", "rejected", "idle", a step of perturb, "done", "failed"
    conf,          \* the constructor's arguments, stored as attributes
    checks_raise,  \* whether a failed check_* of the base class raises
    cost, forward_idx, backward_idx,      \* set by initialize_cost
    run_time, self_num_iter, func_calls,  \* cumulative counters of the object
    lst_len,       \* length of lst_loss and of lst_acc
    X,             \* the source image of the running call
    pi,            \* the coupling
    pi_ad,         \* the autograd attributes of pi
    pi_storage,    \* the memory pi's values live in
    no_grad,       \* inside a "with torch.no_grad()" block
    t,             \* the outer loop variable
    num_iter,      \* the local num_iter: <<>> unbound, <<n>> bound
    adv_example,   \* the decode made by the final block
    result,        \* the returned image
    error,         \* the exception that ended the call, "none" otherwise
    printed,       \* the last progress report: <<t + 1, dual iter, elapsed>>
    hist           \* history of the running call (for the properties)

vars == <<pc, conf, checks_raise, cost, forward_idx, backward_idx, run_time,
          self_num_iter, func_calls, lst_len, X, pi, pi_ad, pi_storage, no_grad, t,
          num_iter, adv_example, result, error, printed, hist>>

config  == <<conf, checks_raise>>
tables  == <<cost, forward_idx, backward_idx>>
counters == <<run_time, self_num_iter, func_calls>>

NoHist ==
    [calls |-> 0, before |-> 0,
     inits |-> 0, grads |-> 0, predicts |-> 0, losses |-> 0, projs |-> 0,
     checks |-> 0, finals |-> 0, posts |-> 0,
     kind |-> "", fed |-> None, fedFrom |-> None, ret |-> None, lossGrad |-> None,
     twin |-> None,
     assumed |-> TRUE, shortfall |-> FALSE,
     loopViolation |-> FALSE, finalViolation |-> FALSE, raisedAt |-> "",
     finalPi |-> None, finalImage |-> None, decodedFrom |-> None]

Init ==
    /\ pc = "new"
    /\ conf \in Configs
    /\ checks_raise \in BOOLEAN
    /\ cost = None /\ forward_idx = None /\ backward_idx = None
    /\ run_time = 0 /\ self_num_iter = 0 /\ func_calls = 0 /\ lst_len = 0
    /\ X = None /\ pi = None /\ t = 0 /\ num_iter = None
    /\ pi_ad = Leaf(FALSE) /\ pi_storage = "own" /\ no_grad = FALSE
    /\ adv_example = None /\ result = None /\ error = "none"
    /\ printed = None
    /\ hist = NoHist

\* ProjectedGradient(...): the constructor.
Construct ==
    /\ pc = "new"
    /\ pc' = IF ProjectedGradientInit(conf) THEN "idle" ELSE "rejected"
    /\ UNCHANGED <<config, tables, counters, lst_len, X, pi, pi_ad, pi_storage, no_grad,
                   t, num_iter, adv_example, result, error, printed, hist>>

\* perturb(X, y), lines 56-60: the cost, the identity coupling.
EnterPerturb ==
    /\ \E x \in Images, made \in Storages :
        /\ X' = x
        /\ pi' = initialize_coupling(x, conf.kernel_size)
        /\ pi_storage' = clone(made)
    /\ cost' = initialize_cost(conf.kernel_size, INF)
    /\ forward_idx' = forward_index(conf.kernel_size)
    /\ backward_idx' = backward_index(conf.kernel_size)
    /\ pi_ad' = CloneDetachRequiresGrad(Leaf(FALSE))
    /\ no_grad' = FALSE
    /\ t' = 0
    /\ num_iter' = None
    /\ adv_example' = None /\ result' = None /\ error' = "none" /\ printed' = None
    /\ hist' = [NoHist EXCEPT !.inits = 1, !.calls = hist.calls + 1,
                              !.before = func_calls]
    /\ pc' = IF LoopContinues(0, conf.nb_iter) THEN "grad" ELSE "final"
    /\ UNCHANGED <<config, counters, lst_len>>

\* The first perturb call on the attack object.
BeginPerturb ==
    /\ pc = "idle"
    /\ EnterPerturb

\* A further perturb call on the same object (one per batch), after the
\* previous call returned or raised.
PerturbAgain ==
    /\ pc \in {"done", "failed"}
    /\ hist.calls < MaxCalls
    /\ EnterPerturb

\* GradientStep, lines 63-78: decode, clamp, one query of the model, one call
\* of the loss, backward, the normalised ascent step.
GradientStep ==
    /\ pc = "grad"
    /\ IF ~pi_ad.requires_grad
       THEN \* loss.backward() on a graph in which nothing requires a gradient
            /\ pc' = "failed"
            /\ error' = "RuntimeError"
            /\ hist' = [hist EXCEPT !.grads = @ + 1, !.predicts = @ + 1,
                                    !.losses = @ + 1, !.raisedAt = "grad"]
            /\ UNCHANGED <<pi, pi_ad, no_grad, lst_len, X>>
       ELSE \E g \in ImageGradients :
            LET lossGrad == EntryGradient(g, conf.kernel_size)
                ad == Backward(pi_ad, lossGrad)
                stepped == GradientAscent(pi, NormaliseInf(ad.grad, conf.kernel_size), conf)
            IN  /\ pi' = stepped
                /\ X' = WriteThrough(X, stepped, pi_storage)
                /\ pi_ad' = ad
                /\ no_grad' = TRUE
                /\ lst_len' = lst_len + 1
                /\ hist' = [hist EXCEPT !.grads = @ + 1, !.predicts = @ + 1,
                                        !.losses = @ + 1,
                                        !.fed = ModelInput(pi, conf), !.fedFrom = pi,
                                        !.kind = "", !.ret = None,
                                        !.lossGrad = lossGrad]
                /\ pc' = "project"
                /\ UNCHANGED error
    /\ UNCHANGED <<config, tables, counters, pi_storage, t, num_iter, adv_example,
                   result, printed>>

\* The results a projection call may return: <<coupling, inner iterations>>.
DualResults ==
    {<<p, n>> : p \in FeasibleTable[<<X, conf.kernel_size, conf.eps>>], n \in 1..conf.dual_max_iter}
    \cup {<<p, conf.dual_max_iter>> : p \in BestEffortTable[<<X, conf.kernel_size, conf.eps>>]}
CapacityResults ==
    {<<p, CapacityIters>> : p \in FeasibleTable[<<X, conf.kernel_size, conf.eps>>] \cup BestEffortTable[<<X, conf.kernel_size, conf.eps>>]}

\* Project, lines 80-104: the branch on capacity_proj_mod.
Project ==
    /\ pc = "project"
    /\ LET kind == SelectProjection(conf.capacity_proj_mod, t) IN
       IF kind = "ZeroDivisionError"
       THEN /\ pc' = "failed"
            /\ error' = "ZeroDivisionError"
            /\ no_grad' = FALSE
            /\ hist' = [hist EXCEPT !.fed = None, !.fedFrom = None, !.lossGrad = None,
                                    !.raisedAt = "project"]
            /\ UNCHANGED <<pi, pi_ad, pi_storage, num_iter>>
       ELSE \E r \in (IF kind = "dual" THEN DualResults
                      ELSE IF kind = "capacity" THEN CapacityResults
                      ELSE {<<None, 0>>}) :
            /\ pi' = CouplingAfterProject(kind, r[1], pi)
            /\ pi_ad' = IF kind = "none" THEN pi_ad ELSE ResultOf(pi_ad, no_grad)
            /\ pi_storage' = IF kind = "none" THEN pi_storage ELSE "own"
            /\ num_iter' = NumIterAfterProject(kind, r[2], num_iter)
            /\ hist' = [hist EXCEPT
                 !.fed = None, !.fedFrom = None, !.lossGrad = None,
                 !.kind = kind,
                 !.ret = r[1],
                 !.projs = IF kind = "none" THEN @ ELSE @ + 1,
                 !.assumed = @ /\ (kind = "none" \/ Feasible(r[1], X, conf.kernel_size, cost, conf.eps)),
                 !.shortfall = @ \/ (/\ kind = "dual"
                                     /\ r[2] = conf.dual_max_iter
                                     /\ ~Feasible(r[1], X, conf.kernel_size, cost, conf.eps))]
            /\ pc' = "account"
            /\ UNCHANGED <<error, no_grad>>
    /\ UNCHANGED <<config, tables, counters, lst_len, X, t, adv_example, result, printed>>

\* What a run keeps of lines 106-117 apart from the times themselves.
NonTiming(o) ==
    [pc |-> o.pc, error |-> o.error, self_num_iter |-> o.self_num_iter,
     func_calls |-> o.func_calls,
     report |-> IF o.printed = None THEN None ELSE <<o.printed[1], o.printed[2]>>]

\* A report of the iterations per unit of time: fails on a zero reading.
AccountOutcome_RatePerTime(elapsed) ==
    IF num_iter = None
    THEN [pc |-> "failed", error |-> "UnboundLocalError",
          run_time |-> run_time + elapsed, self_num_iter |-> self_num_iter,
          func_calls |-> func_calls, printed |-> printed]
    ELSE IF ReportDue(conf, t) /\ elapsed = 0
    THEN [pc |-> "failed", error |-> "ZeroDivisionError",
          run_time |-> run_time + elapsed,
          self_num_iter |-> self_num_iter + num_iter[1],
          func_calls |-> func_calls + 1, printed |-> printed]
    ELSE [pc |-> "check", error |-> error,
          run_time |-> run_time + elapsed,
          self_num_iter |-> self_num_iter + num_iter[1],
          func_calls |-> func_calls + 1,
          printed |-> IF ReportDue(conf, t)
                      THEN <<t + 1, num_iter[1], elapsed>> ELSE printed]

\* Lines 106-117 with the reading elapsed of start.elapsed_time(end): the
\* counters and the progress report.  Line 108 runs before line 109 reads
\* the local num_iter; the report divides the reading by num_iter.
AccountOutcome(elapsed) ==
    IF num_iter = None
    THEN [pc |-> "failed", error |-> "UnboundLocalError",
          run_time |-> run_time + elapsed, self_num_iter |-> self_num_iter,
          func_calls |-> func_calls, printed |-> printed]
    ELSE [pc |-> "check", error |-> error,
          run_time |-> run_time + elapsed,
          self_num_iter |-> self_num_iter + num_iter[1],
          func_calls |-> func_calls + 1,
          printed |-> IF ReportDue(conf, t)
                      THEN <<t + 1, num_iter[1], elapsed>> ELSE printed]

\* Lines 106-117.  hist.twin is what a second run that agrees with this one
\* up to here keeps when its clock reads differently.
Account ==
    /\ pc = "account"
    /\ \E elapsed \in 0..MaxElapsed :
       \E other \in (0..MaxElapsed) \ {elapsed} :
        LET o == AccountOutcome(elapsed)
            twin == AccountOutcome(other)
        IN  /\ run_time' = o.run_time
            /\ self_num_iter' = o.self_num_iter
            /\ func_calls' = o.func_calls
            /\ printed' = o.printed
            /\ pc' = o.pc
            /\ error' = o.error
            /\ no_grad' = (o.pc = "check")
            /\ hist' = [hist EXCEPT
                 !.raisedAt = IF o.pc = "failed" THEN "account" ELSE @,
                 !.twin = [kept |-> NonTiming(twin), elapsed |-> other]]
    /\ UNCHANGED <<config, tables, lst_len, X, pi, pi_ad, pi_storage, t, num_iter,
                   adv_example, result>>

\* ConstraintCheck, lines 119-123, then the loop's next iteration.
ConstraintCheck ==
    /\ pc = "check"
    /\ LET bad == ~Feasible(pi, X, conf.kernel_size, cost, conf.eps) IN
       IF bad /\ checks_raise
       THEN /\ pc' = "failed"
            /\ error' = "AssertionError"
            /\ hist' = [hist EXCEPT !.checks = @ + 1, !.raisedAt = "check",
                                    !.twin = None]
            /\ no_grad' = FALSE
            /\ UNCHANGED <<t, pi_ad, pi_storage>>
       ELSE /\ hist' = [hist EXCEPT !.checks = @ + 1,
                                    !.loopViolation = @ \/ bad, !.ret = None,
                                    !.twin = None]
            /\ pi_ad' = CloneDetachRequiresGrad(pi_ad)
            /\ pi_storage' = clone(pi_storage)
            /\ no_grad' = FALSE
            /\ t' = t + 1
            /\ pc' = IF LoopContinues(t + 1, conf.nb_iter) THEN "grad" ELSE "final"
            /\ UNCHANGED error
    /\ UNCHANGED <<config, tables, counters, lst_len, X, pi, num_iter,
                   adv_example, result, printed>>

\* FinalCheck, lines 125-130: the decode (not clamped) and the three checks.
FinalCheck ==
    /\ pc = "final"
    /\ adv_example' = FinalDecode(pi, conf)
    /\ LET bad == ~Feasible(pi, X, conf.kernel_size, cost, conf.eps) IN
       IF bad /\ checks_raise
       THEN /\ pc' = "failed"
            /\ error' = "AssertionError"
            /\ no_grad' = FALSE
            /\ hist' = [hist EXCEPT !.finals = @ + 1, !.raisedAt = "final",
                                    !.finalViolation = TRUE, !.finalPi = pi,
                                    !.finalImage = FinalDecode(pi, conf)]
       ELSE /\ no_grad' = TRUE
            /\ hist' = [hist EXCEPT !.finals = @ + 1, !.finalViolation = bad,
                                    !.finalPi = pi, !.decodedFrom = pi,
                                    !.finalImage = FinalDecode(pi, conf)]
            /\ pc' = IF PostprocessEnabled(conf) THEN "post" ELSE "ret"
            /\ UNCHANGED error
    /\ UNCHANGED <<config, tables, counters, lst_len, X, pi, pi_ad, pi_storage, t, num_iter,
                   result, printed>>

\* PostProcess, lines 132-149: one capacity-constrained projection, the decode
\* of its result, check_hypercube with a tolerance and the three checks.
PostProcess ==
    /\ pc = "post"
    /\ \E r \in CapacityResults :
        LET img == coupling2adversarial(r[1], conf.kernel_size)
            good == Feasible(r[1], X, conf.kernel_size, cost, conf.eps)
            bad == ~good \/ ~check_hypercube(img, conf.clip_min, conf.clip_max)
        IN  /\ pi' = r[1]
            /\ pi_ad' = ResultOf(pi_ad, no_grad)
            /\ pi_storage' = "own"
            /\ adv_example' = img
            /\ IF bad /\ checks_raise
               THEN /\ pc' = "failed"
                    /\ no_grad' = FALSE
                    /\ error' = "AssertionError"
                    /\ hist' = [hist EXCEPT !.posts = @ + 1, !.raisedAt = "post",
                                            !.assumed = @ /\ good, !.finalPi = None,
                                            !.finalImage = None]
               ELSE /\ pc' = "ret"
                    /\ hist' = [hist EXCEPT !.posts = @ + 1, !.assumed = @ /\ good,
                                            !.decodedFrom = r[1], !.finalPi = None,
                                            !.finalImage = None]
                    /\ UNCHANGED <<error, no_grad>>
    /\ UNCHANGED <<config, tables, counters, lst_len, X, t, num_iter, result, printed>>

\* Lines 151-154: the returned image.
Return ==
    /\ pc = "ret"
    /\ result' = ReturnValue(adv_example, conf)
    /\ pc' = "done"
    /\ no_grad' = FALSE
    /\ UNCHANGED <<config, tables, counters, lst_len, X, pi, pi_ad, pi_storage, t, num_iter,
                   adv_example, error, printed, hist>>

Next ==
    \/ Construct
    \/ BeginPerturb
    \/ GradientStep
    \/ Project
    \/ Account
    \/ ConstraintCheck
    \/ FinalCheck
    \/ PostProcess
    \/ Return

Spec == Init /\ [][Next]_vars

\* The attack object over several perturb calls, on the configurations with
\* a zero budget and at least one iteration.
CallConfigs ==
    [eps : {0}, kernel_size : {1}, lr : {1}, nb_iter : {1, 2},
     dual_max_iter : {MaxDualIter}, clip_min : {ClipMin}, clip_max : {ClipMax},
     clipping : {FALSE}, postprocess : BOOLEAN, verbose : {FALSE},
     capacity_proj_mod : {-1, 1, 2}]
CallsInit == Init /\ conf \in CallConfigs
CallsNext == Next \/ PerturbAgain
CallsSpec == CallsInit /\ [][CallsNext]_vars

\* perturb is one synchronous thread: a step that can be taken is taken.
\* Progress is checked on the short runs with a zero budget (and on the
\* configurations the constructor rejects).
LiveInit == Init /\ conf \in ShortConfigs /\ conf.eps <= 0
LiveSpec == LiveInit /\ [][Next]_vars /\ WF_vars(Next)

TypeOK == pc \in {"new", "rejected", "idle", "grad", "project", "account",
                  "check", "final", "post", "ret", "done", "failed"}

\* ------------------------------------------------------------- properties
InPerturb == pc \in {"grad", "project", "account", "check", "final", "post", "ret", "done"}
FeasibleNow(p) == Feasible(p, X, conf.kernel_size, cost, conf.eps)
Decode(p) == coupling2adversarial(p, conf.kernel_size)

\* C1: if every projection call so far returned a coupling that is
\* non-negative, has the row marginals of X and costs at most eps * mass, then
\* (nb_iter >= 1) the coupling every in-loop ConstraintCheck examines, the
\* coupling FinalCheck examines and the coupling the returned image is decoded
\* from all meet the three constraints.
C1_ExaminedCouplingsFeasible ==
    (conf.nb_iter >= 1 /\ hist.assumed) =>
        /\ pc = "check" => FeasibleNow(pi)
        /\ pc = "final" => FeasibleNow(pi)
        /\ pc \in {"ret", "done"} =>
              /\ FeasibleNow(hist.decodedFrom)
              /\ adv_example = Decode(hist.decodedFrom)
        /\ pc = "done" => result = ReturnValue(Decode(hist.decodedFrom), conf)

\* C1 witness: a call with a capacity projection in the loop and the
\* post-processing pass returned the image of a coupling that moved mass.
C1_Witness ==
    /\ pc = "done" /\ hist.assumed
    /\ conf.nb_iter >= 1 /\ conf.postprocess /\ conf.capacity_proj_mod = 1
    /\ hist.decodedFrom # initialize_coupling(X, conf.kernel_size)
    /\ FeasibleNow(hist.decodedFrom)

\* The projection the iteration with loop variable tt is to perform: the
\* capacity-constrained one when the mode is enabled and tt + 1 is a multiple
\* of capacity_proj_mod, dual_projection otherwise.
IsMultiple(a, m) == \E q \in (-a)..a : a = q * m
ExpectedProjection(mod, tt) ==
    IF mod # -1 /\ IsMultiple(tt + 1, mod) THEN "capacity" ELSE "dual"

\* C2: in every outer iteration the gradient-stepped coupling has passed
\* through exactly one projection once the projection branch is over: the
\* capacity-constrained one when capacity_proj_mod is enabled and t + 1 is a
\* multiple of it, dual_projection in every other iteration.
C2_OneProjectionPerIteration ==
    pc \in {"account", "check"} =>
        /\ hist.kind = ExpectedProjection(conf.capacity_proj_mod, t)
        /\ hist.projs = t + 1
        /\ pi = hist.ret

\* C3: a violation found by an in-loop ConstraintCheck never ends the call,
\* and a call whose FinalCheck found a violation never goes on to return.
C3_LoopDiagnosticFinalFatal ==
    /\ hist.raisedAt # "check"
    /\ pc \in {"post", "ret", "done"} => ~hist.finalViolation

\* C4: the post-processing pass runs exactly when postprocess is True,
\* whatever capacity_proj_mod: one capacity-constrained projection after
\* FinalCheck, and the image returned is the decode of its result; without it
\* the coupling is the one FinalCheck examined and the image its decode.
C4_PostProcessIffEnabled ==
    /\ pc = "post" => conf.postprocess /\ hist.finals = 1 /\ hist.posts = 0
    /\ pc \in {"ret", "done"} =>
          /\ hist.finals = 1
          /\ hist.posts = (IF conf.postprocess THEN 1 ELSE 0)
          /\ adv_example = Decode(pi)
          /\ conf.postprocess => pi = hist.decodedFrom /\ hist.finalPi = None
          /\ ~conf.postprocess => pi = hist.finalPi /\ adv_example = hist.finalImage
    /\ pc = "done" => result = ReturnValue(Decode(pi), conf)

\* C4 witness: with the capacity path disabled, a call returned the decode of
\* a post-processed coupling that differs from the one FinalCheck examined.
C4_Witness ==
    /\ pc = "done" /\ conf.postprocess /\ conf.capacity_proj_mod = -1
    /\ hist.posts = 1
    /\ result # hist.finalImage
    /\ adv_example # X

\* C5: the returned value is the decode of the final coupling: clamped into
\* [clip_min, clip_max] when clipping is enabled, unchanged when it is not.
C5_ReturnedImage ==
    pc = "done" =>
        /\ conf.clipping =>
              /\ \A j \in Pixels : result[j] >= conf.clip_min /\ result[j] <= conf.clip_max
              /\ result = clamp(Decode(pi), conf.clip_min, conf.clip_max)
        /\ ~conf.clipping => result = Decode(pi)

\* C5 witness: with clipping disabled, a returned image has a pixel outside
\* the pixel range.
C5_Witness ==
    /\ pc = "done" /\ ~conf.clipping
    /\ \E j \in Pixels : result[j] > conf.clip_max \/ result[j] < conf.clip_min

\* C6: a call runs Init once, then GradientStep, Project, ConstraintCheck in
\* this order nb_iter times, then FinalCheck once, then at most one
\* PostProcess, then Done; no GradientStep follows FinalCheck.  (A call that
\* raises stops at a prefix of this order.)
C6_StepOrder ==
    /\ InPerturb => hist.inits = 1
    /\ pc = "grad" =>
          /\ t < conf.nb_iter
          /\ hist.grads = t /\ hist.projs = t /\ hist.checks = t
          /\ hist.finals = 0 /\ hist.posts = 0
    /\ pc \in {"project", "account"} =>
          /\ hist.grads = t + 1 /\ hist.checks = t
          /\ hist.finals = 0 /\ hist.posts = 0
    /\ pc = "project" => hist.projs = t
    /\ pc = "check" =>
          /\ hist.grads = t + 1 /\ hist.projs = t + 1 /\ hist.checks = t
          /\ hist.finals = 0 /\ hist.posts = 0
    /\ pc = "final" =>
          /\ t = conf.nb_iter
          /\ hist.grads = t /\ hist.projs = t /\ hist.checks = t
          /\ hist.finals = 0 /\ hist.posts = 0
    /\ pc = "post" => hist.finals = 1 /\ hist.posts = 0
    /\ pc \in {"ret", "done"} => hist.finals = 1 /\ hist.posts <= 1
    /\ hist.finals >= 1 =>
          /\ hist.grads = conf.nb_iter
          /\ hist.projs = conf.nb_iter
          /\ hist.checks = conf.nb_iter
    /\ hist.posts >= 1 => hist.finals = 1

\* C6 witness: a call of two iterations with post-processing is done.
C6_Witness ==
    /\ pc = "done" /\ conf.nb_iter = 2 /\ hist.grads = 2
    /\ conf.postprocess /\ hist.posts = 1

\* C7: the local num_iter is never read while unbound, and the amount added
\* to the cumulative counter is the inner-iteration count of the projection
\* performed in the same iteration.
C7_NumIterOfThisIteration ==
    /\ error # "UnboundLocalError"
    /\ pc = "check" =>
          /\ hist.kind \in {"dual", "capacity"}
          /\ hist.kind = "capacity" => num_iter = <<CapacityIters>>

\* C8: a call in which dual_projection ran out of inner iterations goes on
\* with the coupling it returned and, unless a check raises, reaches Done
\* after all nb_iter outer iterations.
C8_ShortfallNotFatal ==
    /\ [](pc \in {"account", "check"} /\ hist.kind = "dual" => pi = hist.ret)
    /\ (pc = "account" /\ hist.shortfall) ~>
           \/ /\ pc = "done"
              /\ hist.grads = conf.nb_iter
              /\ hist.checks = conf.nb_iter
           \/ error = "AssertionError"

\* C8 witness: a call with a shortfall in its first iteration is done after
\* two iterations.
C8_Witness ==
    /\ pc = "done" /\ hist.shortfall /\ conf.nb_iter = 2
    /\ hist.checks = 2 /\ hist.loopViolation

C10_ModelInputClamped ==
    /\ hist.predicts = hist.grads /\ hist.losses = hist.grads
    /\ pc = "grad" => hist.predicts = t
    /\ pc = "project" =>
          /\ hist.predicts = t + 1 /\ hist.losses = t + 1
          /\ hist.fed = clamp(Decode(hist.fedFrom), conf.clip_min, conf.clip_max)
    /\ hist.finalPi # None => hist.finalImage = Decode(hist.finalPi)

\* C10 witness: with clipping disabled, the model was given an image that
\* differs from the decode of the coupling.
C10_Witness ==
    /\ pc = "project" /\ ~conf.clipping
    /\ hist.fed # Decode(hist.fedFrom)

\* C11: the coupling that enters an outer iteration is a fresh leaf that
\* requires a gradient and carries none, so the gradient the ascent step uses
\* is that of the iteration's own loss; the gradient step, the projection and
\* the constraint checks run under no_grad, and the projected coupling is off
\* the graph until it is made a leaf again before the next decode.
C11_FreshLeafEachIteration ==
    /\ pc = "grad" => pi_ad = Leaf(TRUE) /\ ~no_grad
    /\ pc = "project" => pi_ad.grad = hist.lossGrad /\ pi_ad.is_leaf /\ no_grad
    /\ pc \in {"account", "check"} =>
          /\ no_grad
          /\ hist.kind # "none" => pi_ad = Leaf(FALSE)

\* C11 witness: a later iteration has taken its gradient step with a
\* non-zero gradient.
C11_Witness ==
    /\ pc = "project" /\ t >= 1
    /\ pi_ad.grad = hist.lossGrad
    /\ \E e \in Entries(conf.kernel_size) : pi_ad.grad[e] # 0

\* C12: once perturb has bound X and built the cost matrix and the index
\* maps, no step of the call (iteration, projection, check, postprocess,
\* return) changes the image X, the cost matrix or either index map.
C12_ImageAndTablesUntouched ==
    [][(pc \in {"grad", "project", "account", "check", "final", "post", "ret"})
          => (X' = X /\ <<cost, forward_idx, backward_idx>>' =
                        <<cost, forward_idx, backward_idx>>)]_vars

\* C12 witness: a call has returned with a coupling that the iterations
\* moved away from the initial one.
C12_Witness ==
    /\ pc = "done" /\ hist.grads >= 1
    /\ pi # initialize_coupling(X, conf.kernel_size)
    /\ cost = initialize_cost(conf.kernel_size, INF)

\* C13: the elapsed-time reading decides nothing but run_time and the time
\* in the report: a run whose clock reads differently at lines 106-117 goes
\* to the same position with the same error, the same num_iter and
\* func_calls and the same iteration and dual-iteration figures in its
\* report.  No other step of perturb reads the clock, run_time or the report.
C13_TimingDecidesNothing ==
    hist.twin # None =>
        hist.twin.kept = NonTiming([pc |-> pc, error |-> error,
                                    self_num_iter |-> self_num_iter,
                                    func_calls |-> func_calls,
                                    printed |-> printed])

\* C13 witness: a verbose run has printed its report of this iteration with
\* a reading that differs from its twin's.
C13_Witness ==
    /\ pc = "check" /\ conf.verbose /\ hist.twin # None
    /\ printed # None /\ printed[1] = t + 1
    /\ printed[3] # hist.twin.elapsed

\* C14: no step of perturb resets or decreases run_time, num_iter or
\* func_calls, and they carry over from one perturb call to the next;
\* func_calls changes only at line 110, by one, in an iteration whose
\* projection was called, so that it exceeds its value at the start of the
\* call by the number of projection calls of the outer loop, which is nb_iter
\* when the call returns.
C14_CountersAccumulate ==
    /\ [](hist.calls >= 1 =>
            /\ pc \in {"grad", "check", "final", "post", "ret", "done"}
                  => func_calls = hist.before + hist.projs
            /\ pc = "account" =>
                  func_calls = hist.before + hist.projs
                               - (IF hist.kind \in {"dual", "capacity"} THEN 1 ELSE 0)
            /\ pc = "done" => func_calls = hist.before + conf.nb_iter)
    /\ [][/\ run_time' >= run_time
          /\ self_num_iter' >= self_num_iter
          /\ func_calls' >= func_calls
          /\ func_calls' # func_calls =>
                /\ pc = "account"
                /\ hist.kind \in {"dual", "capacity"}
                /\ func_calls' = func_calls + 1]_vars

\* C14 witness: a second call on the same object has returned, after a first
\* call that added to all three counters.
C14_Witness ==
    /\ pc = "done" /\ hist.calls = MaxCalls /\ conf.nb_iter >= 1
    /\ hist.before >= 1
    /\ func_calls = hist.before + conf.nb_iter
    /\ run_time >= 1 /\ self_num_iter > hist.before
====
